---- MODULE Spec2Model ----
(***************************************************************************)
(* fasttemplate: a template is parsed once into literal chunks (texts) and *)
(* tag names (tags) and then rendered any number of times by ExecuteFunc,  *)
(* which writes the literals and the resolver's output to an io.Writer.    *)
(*                                                                         *)
(* Strings and byte slices are sequences of one-character strings.  Go's   *)
(* 0-based indices are kept: s[:n] is SubSeq(s, 1, n) and s[n:] is         *)
(* SubSeq(s, n + 1, Len(s)).                                               *)
(***************************************************************************)
EXTENDS Integers, Sequences, FiniteSets, TLC

VARIABLES t, args, perr, r

vars == <<t, args, perr, r>>

\* ------------------------------------------------------------ bounds

\* Longest template text of the construct-then-render specifications.
MaxLen == 5

\* Longest template text of the Reset life-cycle specification.
MaxResetLen == 3

\* Longest template text of the concurrent-render specification.
MaxConcLen == 4

\* Largest byte limit of a sink that stops accepting bytes.
MaxSinkLimit == 2

\* ------------------------------------------------------------ inputs

Chars == {"[", "]", "x"}

Strings(n) == UNION {[1..k -> Chars] : k \in 0..n}

\* Delimiter pairs <<startTag, endTag>>: distinct one-byte delimiters, two-byte
\* delimiters, startTag = endTag (one and two bytes, the latter overlapping
\* itself), delimiters that overlap each other, and an empty delimiter on
\* either side.
DelimPairs ==
    { <<(<<"[">>), (<<"]">>)>>,
      <<(<<"[", "[">>), (<<"]", "]">>)>>,
      <<(<<"[">>), (<<"[">>)>>,
      <<(<<"[", "[">>), (<<"[", "[">>)>>,
      <<(<<"[", "]">>), (<<"]", "[">>)>>,
      <<(<<"[">>), (<<"]", "]">>)>>,
      <<(<<"x", "[">>), (<<"[">>)>>,
      <<(<<>>), (<<"]">>)>>,
      <<(<<"[">>), (<<>>)>> }

\* ------------------------------------------------------------ strings

\* A plausible slip: strings.LastIndex for strings.Index.
LastIndex(s, substr) ==
    LET hits == {i \in 0..(Len(s) - Len(substr)) :
                    SubSeq(s, i + 1, i + Len(substr)) = substr}
    IN  IF hits = {} THEN -1 ELSE CHOOSE i \in hits : \A j \in hits : i >= j

\* strings.Index: the 0-based index of the first occurrence of substr in s, or -1.
Index(s, substr) ==
    LET hits == {i \in 0..(Len(s) - Len(substr)) :
                    SubSeq(s, i + 1, i + Len(substr)) = substr}
    IN  IF hits = {} THEN -1 ELSE CHOOSE i \in hits : \A j \in hits : i <= j

\* A plausible slip: strings.Contains for strings.Count (one if substr occurs).
CountAsContains(s, substr) == IF Index(s, substr) < 0 THEN 0 ELSE 1

\* strings.Count: the number of non-overlapping occurrences of substr in s
\* (for the empty substr, one more than the number of characters).
RECURSIVE Count(_, _)
Count(s, substr) ==
    IF Len(substr) = 0 THEN Len(s) + 1
    ELSE LET n == Index(s, substr)
         IN  IF n < 0 THEN 0
             ELSE 1 + Count(SubSeq(s, n + Len(substr) + 1, Len(s)), substr)

\* ------------------------------------------------------------ Template

\* The value of a nil *Template.
Nil == [nil |-> TRUE]

\* var t Template: no raw text, no texts, no tags, no storage.
ZeroTemplate ==
    [template |-> <<>>, texts |-> <<>>, tags |-> <<>>, capTexts |-> 0, capTags |-> 0]

\* append on a slice of capacity cap: the capacity after appending to length len.
GrowCap(cap, len) == IF len > cap THEN len ELSE cap

\* A plausible slip: the scan advances one byte past a delimiter's first byte.
SkipTagOneByte(s, n, tag) == SubSeq(s, n + 2, Len(s))

\* s[n+len(tag):]: the remainder after the delimiter tag found at index n.
SkipTag(s, n, tag) == SubSeq(s, n + Len(tag) + 1, Len(s))

\* A plausible slip: n <= 0 for n < 0.
NotFoundOrFirst(n) == n <= 0

\* n < 0: strings.Index found no occurrence.
NotFound(n) == n < 0

\* The scanning loop of NewTemplate: s and st are the unconsumed remainder (as
\* bytes and as a string), tt the template under construction.
RECURSIVE NewTemplateLoop(_, _, _, _, _)
NewTemplateLoop(s, st, tt, startTag, endTag) ==
    LET n == Index(st, startTag)
    IN  IF NotFound(n)
        THEN [t |-> [tt EXCEPT !.texts = Append(tt.texts, s),
                               !.capTexts = GrowCap(tt.capTexts, Len(tt.texts) + 1)],
              err |-> "nil", s |-> s]
        ELSE LET t1 == [tt EXCEPT !.texts = Append(tt.texts, SubSeq(s, 1, n)),
                                  !.capTexts = GrowCap(tt.capTexts, Len(tt.texts) + 1)]
                 s1 == SkipTag(s, n, startTag)
                 st1 == SkipTag(st, n, startTag)
                 m == Index(st1, endTag)
             IN  IF NotFound(m)
                 THEN [t |-> t1, err |-> "missing", s |-> s1]
                 ELSE NewTemplateLoop(
                          SkipTag(s1, m, endTag),
                          SkipTag(st1, m, endTag),
                          [t1 EXCEPT !.tags = Append(t1.tags, SubSeq(st1, 1, m)),
                                     !.capTags = GrowCap(t1.capTags, Len(t1.tags) + 1)],
                          startTag, endTag)

\* A plausible slip: the raw text is not kept for the render's raw write.
NoTagsDropsRaw(template) == ZeroTemplate

\* tagsCount == 0: the Template that holds the raw text only.
NoTags(template) == [ZeroTemplate EXCEPT !.template = template]

\* NewTemplate(template, startTag, endTag): the returned pointer (Nil on an
\* error) and the error: "nil", "missing" (the missing-end-tag error) or
\* "panic" (an empty delimiter).
NewTemplate(template, startTag, endTag) ==
    IF Len(startTag) = 0 \/ Len(endTag) = 0
    THEN [t |-> Nil, err |-> "panic"]
    ELSE LET tagsCount == Count(template, startTag)
         IN  IF tagsCount = 0
             THEN [t |-> NoTags(template), err |-> "nil"]
             ELSE LET res == NewTemplateLoop(template, template,
                                 [ZeroTemplate EXCEPT !.capTexts = tagsCount + 1,
                                                      !.capTags = tagsCount],
                                 startTag, endTag)
                  IN  IF res.err = "nil"
                      THEN [t |-> res.t, err |-> "nil"]
                      ELSE [t |-> Nil, err |-> res.err]

\* The scanning loop of Reset, over the instance's own (emptied) storage.
RECURSIVE ResetLoop(_, _, _, _, _)
ResetLoop(s, st, tt, startTag, endTag) ==
    LET n == Index(st, startTag)
    IN  IF n < 0
        THEN [t |-> [tt EXCEPT !.texts = Append(tt.texts, s),
                               !.capTexts = GrowCap(tt.capTexts, Len(tt.texts) + 1)],
              err |-> "nil", s |-> s]
        ELSE LET t1 == [tt EXCEPT !.texts = Append(tt.texts, SubSeq(s, 1, n)),
                                  !.capTexts = GrowCap(tt.capTexts, Len(tt.texts) + 1)]
                 s1 == SubSeq(s, n + Len(startTag) + 1, Len(s))
                 st1 == SubSeq(st, n + Len(startTag) + 1, Len(st))
                 m == Index(st1, endTag)
             IN  IF m < 0
                 THEN [t |-> t1, err |-> "missing", s |-> s1]
                 ELSE ResetLoop(
                          SubSeq(s1, m + Len(endTag) + 1, Len(s1)),
                          SubSeq(st1, m + Len(endTag) + 1, Len(st1)),
                          [t1 EXCEPT !.tags = Append(t1.tags, SubSeq(st1, 1, m)),
                                     !.capTags = GrowCap(t1.capTags, Len(t1.tags) + 1)],
                          startTag, endTag)

\* A plausible slip: Reset starts without emptying the instance.
TruncateNothing(tt) == tt

\* A plausible slip: only the texts are emptied.
TruncateTexts(tt) == [tt EXCEPT !.texts = <<>>]

\* t.texts = t.texts[:0]; t.tags = t.tags[:0]: the lengths drop to zero, the
\* storage (the capacities) stays.
Truncate(tt) == [tt EXCEPT !.texts = <<>>, !.tags = <<>>]

\* t.Reset(template, startTag, endTag) on the instance tt: the instance as the
\* call leaves it, and the error ("panic": the call panicked on an empty
\* delimiter, after truncating).
Reset(tt, template, startTag, endTag) ==
    LET t0 == Truncate(tt)
    IN  IF Len(startTag) = 0 \/ Len(endTag) = 0
        THEN [t |-> t0, err |-> "panic"]
        ELSE LET t1 == [t0 EXCEPT !.template = template]
                 tagsCount == Count(template, startTag)
             IN  IF tagsCount = 0
                 THEN [t |-> t1, err |-> "nil"]
                 ELSE LET t2 == [t1 EXCEPT
                                   !.capTexts = IF tagsCount + 1 > t1.capTexts
                                                THEN tagsCount + 1 ELSE t1.capTexts,
                                   !.capTags = IF tagsCount > t1.capTags
                                               THEN tagsCount ELSE t1.capTags]
                          res == ResetLoop(template, template, t2, startTag, endTag)
                      IN  [t |-> res.t, err |-> res.err]

\* ------------------------------------------------------------ io.Writer

\* An empty sink that accepts every byte.
Unbounded == [buf |-> <<>>, limited |-> FALSE, limit |-> 0]

\* An empty sink that accepts limit bytes and fails from then on.
Bounded(limit) == [buf |-> <<>>, limited |-> TRUE, limit |-> limit]

\* The sinks a render is given.
Sinks == {Unbounded} \cup {Bounded(l) : l \in 0..MaxSinkLimit}

\* w.Write(p): the sink accepts p whole, or (a sink with a byte limit) the
\* bytes that still fit and reports a short write.
SinkWrite(w, p) ==
    IF ~w.limited \/ Len(w.buf) + Len(p) <= w.limit
    THEN [w |-> [w EXCEPT !.buf = w.buf \o p], n |-> Len(p), err |-> "nil"]
    ELSE LET k == w.limit - Len(w.buf)
         IN  [w |-> [w EXCEPT !.buf = w.buf \o SubSeq(p, 1, k)], n |-> k, err |-> "short"]

\* ------------------------------------------------------------ TagFunc

\* A caller's TagFunc that writes startTag + tag + endTag in one write.
EchoFunc(startTag, endTag) ==
    [kind |-> "echo", startTag |-> startTag, endTag |-> endTag, on |-> <<>>]

\* A caller's TagFunc that fails, writing nothing, on the tag named on, and
\* writes "x" for every other tag.
FailFunc(on) == [kind |-> "fail", startTag |-> <<>>, endTag |-> <<>>, on |-> on]

\* A caller's TagFunc g called as g(w, tag): the sink after it, the byte
\* count and the error it returns, and the calls it received.
CallUserFunc(g, w, tag) ==
    IF g.kind = "echo"
    THEN LET res == SinkWrite(w, g.startTag \o tag \o g.endTag)
         IN  [w |-> res.w, n |-> res.n, err |-> res.err, panic |-> FALSE,
              inner |-> <<[g |-> g, tag |-> tag]>>]
    ELSE IF tag = g.on
         THEN [w |-> w, n |-> 0, err |-> "tagerr", panic |-> FALSE,
               inner |-> <<[g |-> g, tag |-> tag]>>]
         ELSE LET res == SinkWrite(w, <<"x">>)
              IN  [w |-> res.w, n |-> res.n, err |-> res.err, panic |-> FALSE,
                   inner |-> <<[g |-> g, tag |-> tag]>>]

\* The values of a substitution map m: a nil interface, []byte, string,
\* TagFunc, or a value of any other type.
NilValue == [type |-> "nil", v |-> <<>>, g |-> FailFunc(<<>>)]
BytesValue(v) == [type |-> "bytes", v |-> v, g |-> FailFunc(<<>>)]
StringValue(v) == [type |-> "string", v |-> v, g |-> FailFunc(<<>>)]
FuncValue(g) == [type |-> "func", v |-> <<>>, g |-> g]
OtherValue == [type |-> "other", v |-> <<>>, g |-> FailFunc(<<>>)]

\* m[tag]: the stored value, nil for a key that is absent.
MapGet(m, tag) == IF tag \in DOMAIN m THEN m[tag] ELSE NilValue

\* A plausible slip: the string case is missing, so that a string value falls
\* to the default case.
stdTagFuncNoString(w, tag, m) ==
    LET v == MapGet(m, tag)
    IN  IF v.type = "nil"
        THEN [w |-> w, n |-> 0, err |-> "nil", panic |-> FALSE, inner |-> <<>>]
        ELSE IF v.type = "bytes"
        THEN LET res == SinkWrite(w, v.v)
             IN  [w |-> res.w, n |-> res.n, err |-> res.err, panic |-> FALSE,
                  inner |-> <<>>]
        ELSE IF v.type = "func"
        THEN CallUserFunc(v.g, w, tag)
        ELSE [w |-> w, n |-> 0, err |-> "nil", panic |-> TRUE, inner |-> <<>>]

\* stdTagFunc(w, tag, m).
stdTagFunc(w, tag, m) ==
    LET v == MapGet(m, tag)
    IN  IF v.type = "nil"
        THEN [w |-> w, n |-> 0, err |-> "nil", panic |-> FALSE, inner |-> <<>>]
        ELSE IF v.type = "bytes" \/ v.type = "string"
        THEN LET res == SinkWrite(w, v.v)
             IN  [w |-> res.w, n |-> res.n, err |-> res.err, panic |-> FALSE,
                  inner |-> <<>>]
        ELSE IF v.type = "func"
        THEN CallUserFunc(v.g, w, tag)
        ELSE [w |-> w, n |-> 0, err |-> "nil", panic |-> TRUE, inner |-> <<>>]

\* The resolver Execute hands to ExecuteFunc: a closure over the map m.
StdFunc(m) == [kind |-> "std", m |-> m]

\* f(w, tag) for the resolver f of a render.
CallTagFunc(f, w, tag) ==
    IF f.kind = "std" THEN stdTagFunc(w, tag, f.m) ELSE CallUserFunc(f, w, tag)

\* ------------------------------------------------------------ ExecuteFunc

\* The goroutines that render.
Procs == {1, 2}

\* A goroutine that is in no ExecuteFunc call.
Idle ==
    [pc |-> "idle", i |-> 0, nn |-> 0, err |-> "nil", f |-> FailFunc(<<>>),
     w |-> Unbounded, log |-> <<>>]

\* A plausible slip: i < n - 1 for i < n.
LoopCondShort(i, n) == i < n - 1

\* i < n: the loop goes on to literal i and tag i.
LoopCond(i, n) == i < n

\* A plausible slip: the error of a literal's write is dropped.
WriteFailedIgnored(err) == FALSE

\* err != nil after the write of a literal.
WriteFailed(err) == err # "nil"

\* err != nil after the resolver's call.
TagFailed(err) == err # "nil"

\* A plausible slip: the resolver's byte count is not added.
AddTagCountLost(nn, ni) == nn

\* nn += int64(ni) after the resolver's call.
AddTagCount(nn, ni) == nn + ni

\* t.ExecuteFunc(w, f) is entered: n := len(t.texts) - 1 decides between the
\* raw write ("raw"), the loop ("text", then "tag") and the final write ("last").
ExecuteFuncEnter(tt, f, w) ==
    LET n == Len(tt.texts) - 1
    IN  [pc |-> IF n = -1 THEN "raw" ELSE IF LoopCond(0, n) THEN "text" ELSE "last",
         i |-> 0, nn |-> 0, err |-> "nil", f |-> f, w |-> w, log |-> <<>>]

\* One step of ExecuteFunc on the template tt by a goroutine in state rs: one
\* sink write of a literal, or one call of the resolver.  "done" is the return
\* of (nn, err); "panic" is an index out of range or the resolver's panic.
ExecuteFuncBody(tt, rs) ==
    LET n == Len(tt.texts) - 1
    IN  IF rs.pc = "raw"
        THEN LET res == SinkWrite(rs.w, tt.template)
             IN  [rs EXCEPT !.pc = "done", !.w = res.w, !.nn = res.n, !.err = res.err,
                            !.log = Append(rs.log,
                                [kind |-> "write", data |-> tt.template, n |-> res.n,
                                 err |-> res.err, inner |-> <<>>])]
        ELSE IF rs.pc = "text"
        THEN IF rs.i + 1 > Len(tt.texts)
             THEN [rs EXCEPT !.pc = "panic"]
             ELSE LET res == SinkWrite(rs.w, tt.texts[rs.i + 1])
                  IN  [rs EXCEPT !.pc = IF WriteFailed(res.err) THEN "done" ELSE "tag",
                                 !.w = res.w, !.nn = rs.nn + res.n, !.err = res.err,
                                 !.log = Append(rs.log,
                                     [kind |-> "write", data |-> tt.texts[rs.i + 1],
                                      n |-> res.n, err |-> res.err, inner |-> <<>>])]
        ELSE IF rs.pc = "tag"
        THEN IF rs.i + 1 > Len(tt.tags)
             THEN [rs EXCEPT !.pc = "panic"]
             ELSE LET res == CallTagFunc(rs.f, rs.w, tt.tags[rs.i + 1])
                  IN  IF res.panic
                      THEN [rs EXCEPT !.pc = "panic",
                                      !.log = Append(rs.log,
                                          [kind |-> "tag", data |-> tt.tags[rs.i + 1],
                                           n |-> 0, err |-> "nil", inner |-> res.inner])]
                      ELSE [rs EXCEPT
                              !.pc = IF TagFailed(res.err) THEN "done"
                                     ELSE IF LoopCond(rs.i + 1, n) THEN "text" ELSE "last",
                              !.i = IF TagFailed(res.err) THEN rs.i ELSE rs.i + 1,
                              !.w = res.w, !.nn = AddTagCount(rs.nn, res.n),
                              !.err = res.err,
                              !.log = Append(rs.log,
                                  [kind |-> "tag", data |-> tt.tags[rs.i + 1],
                                   n |-> res.n, err |-> res.err, inner |-> res.inner])]
        ELSE IF rs.pc = "last"
        THEN IF n + 1 > Len(tt.texts) \/ n < 0
             THEN [rs EXCEPT !.pc = "panic"]
             ELSE LET res == SinkWrite(rs.w, tt.texts[n + 1])
                  IN  [rs EXCEPT !.pc = "done", !.w = res.w, !.nn = rs.nn + res.n,
                                 !.err = res.err,
                                 !.log = Append(rs.log,
                                     [kind |-> "write", data |-> tt.texts[n + 1],
                                      n |-> res.n, err |-> res.err, inner |-> <<>>])]
        ELSE rs

Running(rs) == rs.pc \in {"raw", "text", "tag", "last"}

\* A whole ExecuteFunc call from the state rs, run alone.
RECURSIVE RunExecuteFunc(_, _)
RunExecuteFunc(tt, rs) ==
    IF Running(rs) THEN RunExecuteFunc(tt, ExecuteFuncBody(tt, rs)) ELSE rs

\* ------------------------------------------------------------ callers

\* The substitution maps handed to Execute: keys are tag names.
Maps ==
    { <<>>,
      (<<>> :> BytesValue(<<"]">>)) @@ (<<"x">> :> StringValue(<<"x", "[">>)),
      (<<>> :> FuncValue(EchoFunc(<<"[">>, <<"]">>)))
          @@ (<<"x">> :> FuncValue(FailFunc(<<"x">>))),
      (<<>> :> NilValue) @@ (<<"x">> :> OtherValue) }

\* The resolvers handed to ExecuteFunc after a parse with the arguments a.
Resolvers(a) ==
    {EchoFunc(a.startTag, a.endTag), FailFunc(<<>>), FailFunc(<<"x">>)}
        \cup {StdFunc(m) : m \in Maps}

NoArgs == [op |-> "none", template |-> <<>>, startTag |-> <<>>, endTag |-> <<>>]

AllIdle == \A p \in Procs : r[p].pc = "idle"

\* ------------------------------------------------------------ actions

Init ==
    /\ t = ZeroTemplate
    /\ args = NoArgs
    /\ perr = "none"
    /\ r = [p \in Procs |-> Idle]

\* t, err := NewTemplate(template, startTag, endTag).  A panic leaves the
\* caller's t as it was; args keeps the arguments of the last call that got
\* past the delimiter checks.
NewTemplateCall(template, startTag, endTag) ==
    /\ AllIdle
    /\ LET res == NewTemplate(template, startTag, endTag)
       IN  /\ t' = IF res.err = "panic" THEN t ELSE res.t
           /\ perr' = res.err
           /\ args' = IF res.err = "panic" THEN args
                      ELSE [op |-> "new", template |-> template,
                            startTag |-> startTag, endTag |-> endTag]
    /\ UNCHANGED r

\* err := t.Reset(template, startTag, endTag), with no goroutine in a method of t.
ResetCall(template, startTag, endTag) ==
    /\ AllIdle
    /\ t # Nil
    /\ LET res == Reset(t, template, startTag, endTag)
       IN  /\ t' = res.t
           /\ perr' = res.err
           /\ args' = IF res.err = "panic" THEN args
                      ELSE [op |-> "reset", template |-> template,
                            startTag |-> startTag, endTag |-> endTag]
    /\ UNCHANGED r

\* Goroutine p calls t.ExecuteFunc(w, f).
ExecuteFuncCall(p, f, w) ==
    /\ t # Nil
    /\ r[p].pc = "idle"
    /\ r' = [r EXCEPT ![p] = ExecuteFuncEnter(t, f, w)]
    /\ UNCHANGED <<t, args, perr>>

\* A plausible slip: a render releases each literal of the shared Template
\* once it has written it.
ExecuteFuncStepReleases(p) ==
    /\ Running(r[p])
    /\ r' = [r EXCEPT ![p] = ExecuteFuncBody(t, r[p])]
    /\ t' = IF r[p].pc = "text" /\ r[p].i + 1 <= Len(t.texts)
            THEN [t EXCEPT !.texts[r[p].i + 1] = <<>>]
            ELSE t
    /\ UNCHANGED <<args, perr>>

\* Goroutine p takes its next step in ExecuteFunc.
ExecuteFuncStep(p) ==
    /\ Running(r[p])
    /\ r' = [r EXCEPT ![p] = ExecuteFuncBody(t, r[p])]
    /\ UNCHANGED <<t, args, perr>>

\* The caller of goroutine p takes the result; p is free for another render.
ExecuteFuncReturn(p) ==
    /\ r[p].pc \in {"done", "panic"}
    /\ r' = [r EXCEPT ![p] = Idle]
    /\ UNCHANGED <<t, args, perr>>

\* ---- Spec: one construction, then renders by one goroutine.

Templates == Strings(MaxLen)

\* The first parse: NewTemplate, or Reset on a zero Template.
Construct ==
    /\ perr = "none"
    /\ \E template \in Templates, d \in DelimPairs :
          \/ NewTemplateCall(template, d[1], d[2])
          \/ ResetCall(template, d[1], d[2])

Render ==
    \/ \E f \in Resolvers(args), w \in Sinks : ExecuteFuncCall(1, f, w)
    \/ ExecuteFuncStep(1)
    \/ ExecuteFuncReturn(1)

Next == Construct \/ Render

Spec == Init /\ [][Next]_vars

\* ---- SpecReset: any sequence of Reset calls on one instance, starting from
\* the zero Template, each followed by renders by one goroutine.

\* Delimiter pairs of the Reset calls: distinct delimiters, the same two
\* swapped, startTag = endTag, and an empty startTag.
ResetDelimPairs ==
    { <<(<<"[">>), (<<"]">>)>>,
      <<(<<"]">>), (<<"[">>)>>,
      <<(<<"[">>), (<<"[">>)>>,
      <<(<<>>), (<<"]">>)>> }

ResetTemplates == Strings(MaxResetLen)

ResetAgain ==
    \E template \in ResetTemplates, d \in ResetDelimPairs :
        ResetCall(template, d[1], d[2])

RenderReset ==
    \/ \E f \in {EchoFunc(args.startTag, args.endTag), FailFunc(<<>>)} :
          ExecuteFuncCall(1, f, Unbounded)
    \/ ExecuteFuncStep(1)
    \/ ExecuteFuncReturn(1)

NextReset == ResetAgain \/ RenderReset

SpecReset == Init /\ [][NextReset]_vars

\* ---- SpecConc: one construction, then renders by every goroutine of Procs,
\* interleaved step by step, each with its own sink.

ConcDelimPairs == { <<(<<"[">>), (<<"]">>)>>, <<(<<"[">>), (<<"[">>)>> }

ConcTemplates == Strings(MaxConcLen)

ConcResolvers(a) ==
    { EchoFunc(a.startTag, a.endTag),
      StdFunc((<<>> :> BytesValue(<<"]">>)) @@ (<<"x">> :> FuncValue(FailFunc(<<"x">>)))) }

ConcSinks == {Unbounded, Bounded(0)}

ConstructConc ==
    /\ perr = "none"
    /\ \E template \in ConcTemplates, d \in ConcDelimPairs :
          NewTemplateCall(template, d[1], d[2])

RenderConc ==
    \E p \in Procs :
        \/ \E f \in ConcResolvers(args), w \in ConcSinks : ExecuteFuncCall(p, f, w)
        \/ ExecuteFuncStep(p)
        \/ ExecuteFuncReturn(p)

NextConc == ConstructConc \/ RenderConc

SpecConc == Init /\ [][NextConc]_vars

\* ------------------------------------------------------------ properties

\* d occurs in s at the 0-based index i.
OccursAt(s, d, i) ==
    /\ 0 <= i
    /\ i + Len(d) <= Len(s)
    /\ \A k \in 1..Len(d) : s[i + k] = d[k]

\* The concatenation of a sequence of strings.
RECURSIVE Concat(_)
Concat(ss) == IF ss = <<>> THEN <<>> ELSE Head(ss) \o Concat(Tail(ss))

\* What the resolver f writes for tag into a sink that accepts every byte.
Subst(f, tag) == CallTagFunc(f, Unbounded, tag).w.buf

\* literals[0], f(tags[0]), literals[1], ..., f(tags[K-1]), literals[K].
Interleaved(tt, f) ==
    Concat([j \in 1..(2 * Len(tt.tags) + 1) |->
               IF j % 2 = 1 THEN tt.texts[(j + 1) \div 2] ELSE Subst(f, tt.tags[j \div 2])])

\* The render of goroutine 1 has returned.
Done == r[1].pc = "done"

Unlimited == ~r[1].w.limited

\* C1: after a successful parse of the text T with non-empty delimiters, a
\* render whose resolver writes startTag + tag + endTag for each tag, into a
\* sink that accepts every byte, produces exactly T.
C1_RoundTrip ==
    (/\ Done
     /\ perr = "nil"
     /\ Unlimited
     /\ r[1].f = EchoFunc(args.startTag, args.endTag))
    => (r[1].err = "nil" /\ r[1].w.buf = args.template)

\* A round trip of a template with two tags, an empty tag name, an empty
\* literal and startTag = endTag.
C1_Witness ==
    /\ Done
    /\ perr = "nil"
    /\ Unlimited
    /\ r[1].f = EchoFunc(args.startTag, args.endTag)
    /\ args.startTag = args.endTag
    /\ Len(t.tags) = 2
    /\ <<>> \in {t.tags[i] : i \in 1..Len(t.tags)}
    /\ <<>> \in {t.texts[i] : i \in 1..Len(t.texts)}
    /\ r[1].w.buf = args.template

\* C2: a render of a template with K >= 1 tags in which neither the sink nor
\* the resolver fails makes 2K+1 steps: the write of literal i, then the
\* resolver on tag i, for i = 0..K-1 in this order, then the write of literal
\* K; the sink holds the literals and the resolver's outputs in that order.
C2_InOrder ==
    (/\ Done
     /\ perr = "nil"
     /\ Len(t.tags) >= 1
     /\ r[1].err = "nil")
    => LET K == Len(t.tags)
           log == r[1].log
       IN  /\ Len(log) = 2 * K + 1
           /\ \A i \in 1..K :
                 /\ log[2 * i - 1].kind = "write"
                 /\ log[2 * i - 1].data = t.texts[i]
                 /\ log[2 * i].kind = "tag"
                 /\ log[2 * i].data = t.tags[i]
           /\ log[2 * K + 1].kind = "write"
           /\ log[2 * K + 1].data = t.texts[K + 1]
           /\ Len(t.texts) = K + 1
           /\ r[1].w.buf = Interleaved(t, r[1].f)

\* A completed render of a template in which one tag name occurs twice.
C2_Witness ==
    /\ Done
    /\ perr = "nil"
    /\ r[1].err = "nil"
    /\ Len(t.tags) = 2
    /\ t.tags[1] = t.tags[2]
    /\ Len(r[1].log) = 5
    /\ r[1].f.kind = "std"
    /\ r[1].w.buf # Concat(t.texts)

\* The start delimiter of the last parse occurs nowhere in its text.
NoStartTag == \A i \in 0..Len(args.template) : ~OccursAt(args.template, args.startTag, i)

\* C3: after a parse of a text with no occurrence of the start delimiter, a
\* render with any resolver makes one sink write, of the whole text, and no
\* resolver call; a sink that accepts every byte then holds exactly the text.
C3_NoTags ==
    (perr = "nil" /\ NoStartTag)
    => LET log == r[1].log
       IN  /\ Len(log) <= 1
           /\ \A j \in 1..Len(log) :
                 log[j].kind = "write" /\ log[j].data = args.template
           /\ Done => Len(log) = 1
           /\ (Done /\ Unlimited) => (r[1].w.buf = args.template /\ r[1].err = "nil")

\* A finished render of a non-empty text that holds the end delimiter and not
\* the start delimiter, with a resolver that would have written something.
C3_Witness ==
    /\ perr = "nil"
    /\ NoStartTag
    /\ \E i \in 0..Len(args.template) : OccursAt(args.template, args.endTag, i)
    /\ args.startTag # args.endTag
    /\ Done
    /\ Unlimited
    /\ r[1].f.kind = "echo"
    /\ r[1].w.buf = args.template

\* The least element of a non-empty set of integers.
Min(S) == CHOOSE i \in S : \A j \in S : i <= j

\* From the 0-based offset p of the text T on, the scan meets a start delimiter
\* with no end delimiter in the text after it: the leftmost start delimiter at
\* or after p has no end delimiter after it, or it has one and the same holds
\* from the end of the first such end delimiter on.
RECURSIVE Unterminated(_, _, _, _)
Unterminated(T, startTag, endTag, p) ==
    LET S == {i \in p..Len(T) : OccursAt(T, startTag, i)}
    IN  IF S = {} THEN FALSE
        ELSE LET E == {i \in (Min(S) + Len(startTag))..Len(T) : OccursAt(T, endTag, i)}
             IN  IF E = {} THEN TRUE
                 ELSE Unterminated(T, startTag, endTag, Min(E) + Len(endTag))

\* C4: a parse with non-empty delimiters (NewTemplate or Reset) returns the
\* missing-end-tag error exactly when the scan meets a start delimiter with no
\* end delimiter in the text after it, and succeeds otherwise; NewTemplate then
\* returns no template.
C4_MissingEndTag ==
    (perr \in {"nil", "missing"})
    => /\ (perr = "missing") <=>
              Unterminated(args.template, args.startTag, args.endTag, 0)
       /\ (perr = "missing" /\ args.op = "new") => t = Nil
       /\ (perr = "nil") => t # Nil

\* NewTemplate has failed on a text of three markers with startTag = endTag.
C4_Witness ==
    /\ perr = "missing"
    /\ args.op = "new"
    /\ t = Nil
    /\ args.startTag = args.endTag
    /\ Len(args.startTag) = 1
    /\ Count(args.template, args.startTag) = 3

\* The last element of a non-empty sequence.
Last(ss) == ss[Len(ss)]

\* C5: the resolver of Execute, called on a tag: writes nothing and reports
\* success when the map holds no value for the tag; writes exactly the value
\* when it is a []byte or a string; calls the value when it is a TagFunc, with
\* the same sink and the same tag, and returns its result; panics, returning
\* no error, on a value of any other type.
C5_StdTagFunc ==
    [][(r[1].pc = "tag" /\ r[1].f.kind = "std" /\ r'[1] # r[1])
       => LET tag == t.tags[r[1].i + 1]
              v == MapGet(r[1].f.m, tag)
              w == r[1].w
              ev == Last(r'[1].log)
          IN  /\ ev.kind = "tag" /\ ev.data = tag
              /\ (tag \notin DOMAIN r[1].f.m \/ v.type = "nil") =>
                    /\ r'[1].w = w
                    /\ ev.n = 0 /\ ev.err = "nil" /\ ev.inner = <<>>
                    /\ r'[1].pc \in {"text", "last"}
              /\ (v.type \in {"bytes", "string"}) =>
                    /\ r'[1].w = SinkWrite(w, v.v).w
                    /\ ~w.limited => r'[1].w.buf = w.buf \o v.v
                    /\ ev.n = SinkWrite(w, v.v).n
                    /\ ev.err = SinkWrite(w, v.v).err
                    /\ ev.inner = <<>>
                    /\ r'[1].pc # "panic"
              /\ (v.type = "func") =>
                    /\ ev.inner = <<[g |-> v.g, tag |-> tag]>>
                    /\ r'[1].w = CallUserFunc(v.g, w, tag).w
                    /\ ev.n = CallUserFunc(v.g, w, tag).n
                    /\ ev.err = CallUserFunc(v.g, w, tag).err
                    /\ r'[1].err = ev.err
                    /\ r'[1].pc # "panic"
              /\ (v.type = "other") =>
                    /\ r'[1].pc = "panic"
                    /\ r'[1].w = w
                    /\ r'[1].err = "nil"]_vars

\* Execute has resolved a tag whose value is a TagFunc, which wrote to the sink.
C5_Witness ==
    /\ r[1].f.kind = "std"
    /\ r[1].log # <<>>
    /\ Last(r[1].log).kind = "tag"
    /\ Last(r[1].log).inner # <<>>
    /\ Last(r[1].log).n > 0
    /\ r[1].pc \in {"text", "last"}

\* s is a prefix of u.
IsPrefix(s, u) == Len(s) <= Len(u) /\ SubSeq(u, 1, Len(s)) = s

\* The sum of the byte counts reported by the steps of a log.
RECURSIVE SumN(_)
SumN(log) == IF log = <<>> THEN 0 ELSE Head(log).n + SumN(Tail(log))

\* C6: in a render of a template with tags, the steps made are the first ones
\* of literal 0, tag 0, literal 1, ... and no step follows a failed one: after
\* a failed write of literal i the resolver is not called on tag i, after a
\* failure of the resolver on tag i nothing more is written; the call returns
\* the error of that step, and the sink keeps the bytes accepted until then.
C6_Abort ==
    (t # Nil /\ r[1].pc # "idle" /\ Len(t.texts) > 0)
    => LET log == r[1].log
       IN  /\ \A j \in 1..(Len(log) - 1) : log[j].err = "nil"
           /\ \A j \in 1..Len(log) :
                 /\ j <= 2 * Len(t.tags) + 1
                 /\ IF j % 2 = 1
                    THEN log[j].kind = "write" /\ log[j].data = t.texts[(j + 1) \div 2]
                    ELSE log[j].kind = "tag" /\ log[j].data = t.tags[j \div 2]
           /\ (log # <<>> /\ Last(log).err # "nil") =>
                 (r[1].pc = "done" /\ r[1].err = Last(log).err)
           /\ (Done /\ r[1].err # "nil") => (log # <<>> /\ Last(log).err = r[1].err)
           /\ (Done /\ r[1].err = "nil") => Len(log) = 2 * Len(t.tags) + 1
           /\ IsPrefix(r[1].w.buf, Interleaved(t, r[1].f))
           /\ Len(r[1].w.buf) = SumN(log)

\* The resolver has failed on the second of two tags, after the first one was
\* substituted: the call has returned its error after four steps (the last
\* literal was never written), and the first substitution is in the sink.
C6_Witness ==
    /\ Done
    /\ perr = "nil"
    /\ r[1].err = "tagerr"
    /\ Len(t.tags) = 2
    /\ Len(r[1].log) = 4
    /\ r[1].log[2].n > 0
    /\ r[1].w.buf # <<>>

Fresh == NewTemplate(args.template, args.startTag, args.endTag).t

\* A whole ExecuteFunc call on the template tt, run alone on an empty sink.
Alone(tt, f, w) == RunExecuteFunc(tt, ExecuteFuncEnter(tt, f, w))

\* The sink a render started with.
SinkAtCall(rs) == [rs.w EXCEPT !.buf = <<>>]

\* C7: after a successful Reset of an instance in any earlier state, every
\* render gives what it gives on the Template NewTemplate builds from the same
\* arguments: the same steps and resolver calls, the same bytes in the sink,
\* the same count and error.
C7_ResetIsFresh ==
    (perr = "nil" /\ args.op = "reset")
    => /\ Fresh # Nil
       /\ r[1].pc = "idle" =>
             \A f \in Resolvers(args), w \in Sinks : Alone(t, f, w) = Alone(Fresh, f, w)
       /\ r[1].pc \in {"done", "panic"} =>
             r[1] = Alone(Fresh, r[1].f, SinkAtCall(r[1]))

\* A render has finished on an instance that was Reset to a text without tags
\* after it had held a text with a tag (its tag storage is still there).
C7_Witness ==
    /\ perr = "nil"
    /\ args.op = "reset"
    /\ t.capTags >= 1
    /\ t.tags = <<>>
    /\ t.template # <<>>
    /\ Done
    /\ r[1].f.kind = "echo"
    /\ r[1].w.buf = args.template

\* C8: a step of a render leaves the Template as it is, and, however the
\* steps of the goroutines interleave, a render that has returned has made
\* the steps, filled its sink and returned the count and error of the same
\* call run alone on the Template as it was built.
C8_Concurrent ==
    [][/\ (r' # r) => (t' = t)
       /\ (perr = "nil") =>
             \A p \in Procs :
                 (r'[p].pc \in {"done", "panic"}) =>
                     r'[p] = Alone(Fresh, r'[p].f, SinkAtCall(r'[p]))]_vars

\* Goroutine 1 has returned from a render of a template with a tag while
\* goroutine 2, with another resolver, is between two steps of its own.
C8_Witness ==
    /\ perr = "nil"
    /\ Len(t.tags) >= 1
    /\ r[1].pc = "done"
    /\ Len(r[1].log) >= 3
    /\ r[2].pc = "tag"
    /\ Len(r[2].log) >= 1
    /\ r[1].f # r[2].f

\* C10: whatever Reset calls an instance has been through (successful, failed
\* with the missing-end-tag error, or panicked on an empty delimiter), it has
\* no texts and no tags, or one more text than tags; no render of it indexes
\* a text or a tag out of range.
C10_Shape ==
    /\ t # Nil =>
          \/ (t.texts = <<>> /\ t.tags = <<>>)
          \/ Len(t.texts) = Len(t.tags) + 1
    /\ \A p \in Procs : r[p].pc # "panic"

\* A render has finished on an instance left by a Reset that failed after it
\* had parsed one tag.
C10_Witness ==
    /\ perr = "missing"
    /\ Len(t.tags) = 1
    /\ Len(t.texts) = 2
    /\ Done
    /\ Len(r[1].log) = 3

\* The 0-based offset in the parsed text at which literal i of tt begins, the
\* delimiters being ls and le bytes long.
RECURSIVE LitPos(_, _, _, _)
LitPos(tt, ls, le, i) ==
    IF i = 1 THEN 0
    ELSE LitPos(tt, ls, le, i - 1)
             + Len(tt.texts[i - 1]) + ls + Len(tt.tags[i - 1]) + le

\* d occurs somewhere in s.
Occurs(s, d) == \E k \in 0..Len(s) : OccursAt(s, d, k)

\* The texts and tags of tt are the leftmost-first split of the text T by the
\* delimiters startTag and endTag: every literal ends at the leftmost start
\* delimiter at or after its begin (the last one at the end of T, with no
\* start delimiter left), every tag name runs from the end of that start
\* delimiter to the first end delimiter after it.
LeftmostFirst(tt, T, startTag, endTag) ==
    LET K == Len(tt.tags)
        ls == Len(startTag)
        le == Len(endTag)
        lit(i) == LitPos(tt, ls, le, i)
        sp(i) == lit(i) + Len(tt.texts[i])
        tp(i) == sp(i) + ls
        ep(i) == tp(i) + Len(tt.tags[i])
    IN  /\ Len(tt.texts) = K + 1
        /\ \A i \in 1..K :
              /\ tt.texts[i] = SubSeq(T, lit(i) + 1, sp(i))
              /\ OccursAt(T, startTag, sp(i))
              /\ \A q \in lit(i)..(sp(i) - 1) : ~OccursAt(T, startTag, q)
              /\ tt.tags[i] = SubSeq(T, tp(i) + 1, ep(i))
              /\ OccursAt(T, endTag, ep(i))
              /\ \A q \in tp(i)..(ep(i) - 1) : ~OccursAt(T, endTag, q)
        /\ tt.texts[K + 1] = SubSeq(T, lit(K + 1) + 1, Len(T))
        /\ \A q \in lit(K + 1)..Len(T) : ~OccursAt(T, startTag, q)
        /\ \A i \in 1..(K + 1) : ~Occurs(tt.texts[i], startTag)
        /\ \A i \in 1..K : ~Occurs(tt.tags[i], endTag)

\* "foo[baz]bar" and "{{a}}{{b}}".
FooBazBar == <<"f", "o", "o", "[", "b", "a", "z", "]", "b", "a", "r">>
TwoAdjacent == <<"{", "{", "a", "}", "}", "{", "{", "b", "}", "}">>

\* C11: (looked at before any rendering starts, the parse result not being
\* touched by rendering) after a successful parse that found tags, no literal holds the start
\* delimiter, no tag name holds the end delimiter, and the literals and tag
\* names are the leftmost-first split of the text; "foo[baz]bar" with "[" and
\* "]" gives the literals "foo", "bar" and the tag "baz", "{{a}}{{b}}" with
\* "{{" and "}}" three empty literals and the tags "a", "b".
C11_LeftmostFirst ==
    AllIdle =>
    /\ (perr = "nil" /\ t # Nil /\ t.texts # <<>>)
          => LeftmostFirst(t, args.template, args.startTag, args.endTag)
    /\ LET ex == NewTemplate(FooBazBar, <<"[">>, <<"]">>)
       IN  /\ ex.err = "nil"
           /\ ex.t.texts = <<(<<"f", "o", "o">>), (<<"b", "a", "r">>)>>
           /\ ex.t.tags = <<(<<"b", "a", "z">>)>>
    /\ LET ex == NewTemplate(TwoAdjacent, <<"{", "{">>, <<"}", "}">>)
       IN  /\ ex.err = "nil"
           /\ ex.t.texts = <<(<<>>), (<<>>), (<<>>)>>
           /\ ex.t.tags = <<(<<"a">>), (<<"b">>)>>

\* A successful parse whose first tag name holds the start delimiter and is
\* followed by a second tag.
C11_Witness ==
    /\ perr = "nil"
    /\ t # Nil
    /\ Len(t.tags) = 2
    /\ Occurs(t.tags[1], args.startTag)
    /\ args.startTag # args.endTag
    /\ LeftmostFirst(t, args.template, args.startTag, args.endTag)

\* The most occurrences of d in s that can be picked with no two overlapping.
MaxDisjoint(s, d) ==
    LET occ == {i \in 0..Len(s) : OccursAt(s, d, i)}
        disjoint(S) == \A i \in S : \A j \in S : i < j => i + Len(d) <= j
        sizes == {Cardinality(S) : S \in {X \in SUBSET occ : disjoint(X)}}
    IN  CHOOSE n \in sizes : \A m \in sizes : m <= n

\* The last parse ran on an instance with no storage (NewTemplate's own, or a
\* Reset of a Template that was never parsed into).
FreshParse == args.op \in {"new", "reset"} /\ perr \in {"nil", "missing"}

\* The scanning loop as NewTemplate runs it on the last parse's inputs, which
\* counted tagsCount start delimiters (NewTemplate hands out no Template when
\* the loop fails, so the loop's own result is looked at).
LastScan(tagsCount) ==
    NewTemplateLoop(args.template, args.template,
                    [ZeroTemplate EXCEPT !.capTexts = tagsCount + 1,
                                         !.capTags = tagsCount],
                    args.startTag, args.endTag).t

\* tt holds at most tagsCount tags and tagsCount + 1 literals in storage that
\* is still the tagsCount and tagsCount + 1 slots allocated up front.
WithinPreCount(tt, tagsCount) ==
    /\ Len(tt.tags) <= tagsCount
    /\ Len(tt.texts) <= tagsCount + 1
    /\ tt.capTags = tagsCount
    /\ tt.capTexts = tagsCount + 1

\* C12: (looked at before any rendering starts) after a parse with non-empty
\* delimiters, successful or failed on a missing end delimiter, the count
\* taken up front is the number of non-overlapping start delimiters in the
\* text; if it is zero no scan ran, nothing was allocated, and the text holds
\* no start delimiter; otherwise the scan ran and appended at most that many
\* tags and at most one literal more, never growing the storage allocated
\* from the count; the no-scan path was taken exactly when the text holds no
\* start delimiter.
C12_PreCountBounds ==
    (AllIdle /\ FreshParse) =>
        LET tagsCount == Count(args.template, args.startTag)
            tt == IF t # Nil THEN t ELSE LastScan(tagsCount)
        IN  /\ tagsCount = MaxDisjoint(args.template, args.startTag)
            /\ (tagsCount = 0) <=> NoStartTag
            /\ tagsCount = 0 =>
                  /\ perr = "nil"
                  /\ t # Nil
                  /\ t.texts = <<>> /\ t.tags = <<>>
                  /\ t.capTexts = 0 /\ t.capTags = 0
            /\ tagsCount > 0 =>
                  /\ WithinPreCount(tt, tagsCount)
                  /\ Len(tt.texts) >= 1
                  /\ perr = "nil" => Len(tt.texts) = Len(tt.tags) + 1

\* A successful parse that ended with fewer tags than the count taken up
\* front, the start delimiter occurring inside a tag name.
C12_Witness ==
    /\ AllIdle
    /\ args.op = "new"
    /\ perr = "nil"
    /\ t # Nil
    /\ Len(t.tags) >= 1
    /\ Len(t.tags) < Count(args.template, args.startTag)
    /\ \E i \in 1..Len(t.tags) : Occurs(t.tags[i], args.startTag)
    /\ WithinPreCount(t, Count(args.template, args.startTag))

====
